---- MODULE Spec2Model ----
(***************************************************************************)
(* Lazy sparse SGD for L2-regularised logistic regression                  *)
(* (xdavio/sparse_sgd).  The repository holds two versions of the notebook *)
(* that defines update / sparse_sgd: src/sparse_sgd.ipynb and              *)
(* src/unnamed/part_000.  They differ in the base of the catch-up penalty  *)
(* (line 61 resp. line 87); the variable ver selects the version a run     *)
(* executes.  Line numbers in comments are those of src/sparse_sgd.ipynb;  *)
(* add 26 for src/unnamed/part_000.                                        *)
(*                                                                         *)
(* Real numbers are exact rationals <<numerator, denominator>> in lowest   *)
(* terms with a positive denominator.                                      *)
(***************************************************************************)
EXTENDS Integers, Sequences, FiniteSets, TLC

\* ------------------------------------------------------------------------
\* Bounds
\* ------------------------------------------------------------------------
\* Largest value of the argument maxit that a run is started with.
MaxIt == 3

\* ------------------------------------------------------------------------
\* Exact rational arithmetic (the model of Python / numpy floats)
\* ------------------------------------------------------------------------
Abs(n) == IF n < 0 THEN -n ELSE n

RECURSIVE GCD(_, _)
GCD(a, b) == IF b = 0 THEN a ELSE GCD(b, a % b)

\* The operators below bind every operand to its value (x \in {a}) before
\* using it, so that an operand is evaluated once.
Lowest(n, d, g) ==
    IF d < 0 THEN <<(-n) \div g, (-d) \div g>> ELSE <<n \div g, d \div g>>

Norm(n, d) ==
    CHOOSE r \in {Lowest(a, b, GCD(Abs(a), Abs(b))) : a \in {n}, b \in {d}} : TRUE

R(n) == <<n, 1>>
Zero == <<0, 1>>
One == <<1, 1>>
Half == <<1, 2>>

\* a + b over the common denominator l
AddOver(a, b, l) == Norm(a[1] * (l \div a[2]) + b[1] * (l \div b[2]), l)

RAdd(a, b) ==
    CHOOSE r \in {AddOver(x, z, (x[2] \div GCD(x[2], z[2])) * z[2]) :
                       x \in {a}, z \in {b}} : TRUE

RNeg(a) == <<-a[1], a[2]>>

RSub(a, b) == RAdd(a, RNeg(b))

\* a * b with the cross factors g1, g2 cancelled first
MulOver(a, b, g1, g2) ==
    Norm((a[1] \div g1) * (b[1] \div g2), (a[2] \div g2) * (b[2] \div g1))

RMul(a, b) ==
    CHOOSE r \in {MulOver(x, z, GCD(Abs(x[1]), z[2]), GCD(Abs(z[1]), x[2])) :
                       x \in {a}, z \in {b}} : TRUE

RInv(a) == Norm(a[2], a[1])

RLess(a, b) == a[1] * b[2] < b[1] * a[2]

RLeq(a, b) == a[1] * b[2] <= b[1] * a[2]

\* Python's float ** int
RECURSIVE RPow(_, _)
RPow(b, k) ==
    IF k = 0 THEN One
    ELSE IF k < 0 THEN RInv(RPow(b, -k))
    ELSE RMul(b, RPow(b, k - 1))

\* ------------------------------------------------------------------------
\* numpy arrays and dicts: functions on 0 .. n-1
\* ------------------------------------------------------------------------
Arr(s) == [k \in 0 .. Len(s) - 1 |-> s[k + 1]]

Size(a) == Cardinality(DOMAIN a)

\* np.zeros(n)
zeros(n) == [k \in 0 .. n - 1 |-> Zero]

\* numpy's xA.dot(betaA)
RECURSIVE DotUpTo(_, _, _)
DotUpTo(xs, bs, n) ==
    IF n = 0 THEN Zero
    ELSE RAdd(DotUpTo(xs, bs, n - 1), RMul(xs[n - 1], bs[n - 1]))

dot(xs, bs) == DotUpTo(xs, bs, Size(xs))

\* scipy.special.expit, the logistic function 1 / (1 + exp(-x)), rounded to
\* the dyadic grid {1/8, 1/4, 1/2, 3/4, 7/8}: exact at 0, monotone,
\* expit(-x) = 1 - expit(x), values strictly between 0 and 1.
expit(x) ==
    IF x = Zero THEN Half
    ELSE IF RLess(Zero, x)
         THEN (IF RLess(x, R(2)) THEN <<3, 4>> ELSE <<7, 8>>)
         ELSE (IF RLess(R(-2), x) THEN <<1, 4>> ELSE <<1, 8>>)

\* ------------------------------------------------------------------------
\* The arithmetic of update (lines 59-67)
\* ------------------------------------------------------------------------
Versions == {"sparse_sgd.ipynb", "part_000"}

\* src/sparse_sgd.ipynb line 61: (1 + eta * la)
DecayBaseNotebook(e, l) == RAdd(One, RMul(e, l))

\* a base that leaves the penalty strength out
DecayBaseNoLambda(e, l) == RSub(One, e)

\* src/unnamed/part_000 line 87: (1 - eta * la)
DecayBasePart(e, l) == RSub(One, RMul(e, l))

DecayBase(vr, e, l) ==
    IF vr = "sparse_sgd.ipynb" THEN DecayBaseNotebook(e, l)
    ELSE DecayBasePart(e, l)

\* an exponent that counts the current iteration too
GapInclusive(t, last) == t - last

\* the exponent it - gap_count[jj] - 1
Gap(t, last) == t - last - 1

\* pen[jjA] = base ** (it - gap_count[jj] - 1)
Penalty(vr, e, l, t, last) == RPow(DecayBase(vr, e, l), Gap(t, last))

\* a last-touch stamp that is only set the first time
TouchFirst(gc, jj, t) == [gc EXCEPT ![jj] = IF @ = 0 THEN t ELSE @]

\* a last-touch stamp that runs one iteration ahead
TouchNext(gc, jj, t) == [gc EXCEPT ![jj] = t + 1]

\* line 62: gap_count[jj] = it
Touch(gc, jj, t) == [gc EXCEPT ![jj] = t]

\* line 64: betaA * pen
ArrMul(a, b) == [k \in DOMAIN a |-> RMul(a[k], b[k])]

\* a gradient in which the coordinates after the first use a predictor
\* that already contains the first coordinate's gradient
GradPenaltySeq(yi, xs, bs, l, psi) ==
    [k \in DOMAIN bs |->
        LET psik == IF k = 0 THEN psi
                    ELSE RAdd(psi, RMul(xs[0], RMul(RSub(yi, expit(psi)), xs[0])))
        IN  RSub(RMul(RSub(yi, expit(psik)), xs[k]), RMul(l, bs[k]))]

\* a gradient with the sign convention of -1/+1 labels turned round
GradPenaltyFlipped(yi, xs, bs, l, psi) ==
    [k \in DOMAIN bs |->
        RSub(RMul(RSub(expit(psi), yi), xs[k]), RMul(l, bs[k]))]

\* line 66: (y[ii] - expit(xAbetaA)) * xA - la * betaA
GradPenalty(yi, xs, bs, l, psi) ==
    [k \in DOMAIN bs |->
        RSub(RMul(RSub(yi, expit(psi)), xs[k]), RMul(l, bs[k]))]

\* line 67: betaA + eta * grad_penalty
GradStep(bs, e, gp) == [k \in DOMAIN bs |-> RAdd(bs[k], RMul(e, gp[k]))]

\* a write-back that lands on the neighbouring key
StoreShifted(bd, jj, b) == [bd EXCEPT ![(jj + 1) % Size(bd)] = b]

\* line 70: beta_dict[jj] = beta
Store(bd, jj, b) == [bd EXCEPT ![jj] = b]

\* ------------------------------------------------------------------------
\* The eager reference of the notebook's derivation
\* (src/unnamed/part_000 lines 17-28): every iteration decays every
\* coordinate outside the active set by (1 - eta*lambda) and applies the
\* gradient + penalty step to the coordinates of the active set.
\* ------------------------------------------------------------------------
PosOf(idx, j) == CHOOSE k \in DOMAIN idx : idx[k] = j

ActiveSet(idx) == {idx[k] : k \in DOMAIN idx}

EagerStep(e, idx, xs, yi, et, l) ==
    LET bs == [k \in DOMAIN idx |-> e[idx[k]]]
        psi == dot(xs, bs)
    IN  [j \in DOMAIN e |->
            IF j \in ActiveSet(idx)
            THEN RAdd(e[j],
                      RMul(et, RSub(RMul(RSub(yi, expit(psi)), xs[PosOf(idx, j)]),
                                    RMul(l, e[j]))))
            ELSE RMul(e[j], RSub(One, RMul(et, l)))]

\* ------------------------------------------------------------------------
\* Inputs
\* ------------------------------------------------------------------------
\* A csr_matrix of shape (3, 3): row 0 has nonzeros in columns 0 and 2,
\* row 1 in columns 1 and 2, row 2 has none.
XA ==
    [shape |-> <<3, 3>>,
     rows  |-> Arr(<<[indices |-> Arr(<<0, 2>>), data |-> Arr(<<One, Half>>)],
                     [indices |-> Arr(<<1, 2>>), data |-> Arr(<<R(2), R(-1)>>)],
                     [indices |-> Arr(<<>>),     data |-> Arr(<<>>)]>>)]

\* A csr_matrix of shape (1, 3): its only row has 1.0 in column 0 and 0.5
\* in column 2.
XS ==
    [shape |-> <<1, 3>>,
     rows  |-> Arr(<<[indices |-> Arr(<<0, 2>>), data |-> Arr(<<One, Half>>)]>>)]

Tenth == <<1, 10>>

Case(xx, yy, e, l, m) == [X |-> xx, y |-> Arr(yy), eta |-> e, la |-> l, maxit |-> m]

ValidCases ==
    { Case(XA, <<1, 0, 1>>, Half, One, MaxIt),
      Case(XA, <<0, 1, 0>>, Half, Half, MaxIt),
      Case(XA, <<1, 0, 1>>, Half, Zero, MaxIt),
      Case(XA, <<1, 1, 0>>, One, Half, 1),
      Case(XS, <<1>>, Tenth, Tenth, 1) }

InvalidCases ==
    { Case(XA, <<1, 0>>, Half, One, MaxIt),
      Case(XA, <<1, 0, 1, 1>>, Half, One, 2),
      Case(XA, <<1, 0, 1>>, Zero, One, 2),
      Case(XA, <<1, 0, 1>>, <<-1, 2>>, One, 2),
      Case(XA, <<1, 0, 1>>, Half, R(-1), 2),
      Case(XA, <<1, 0, 1>>, Half, One, 0),
      Case(XA, <<1, 0, 1>>, Half, One, -1),
      Case(XA, <<1, 2, 0>>, Half, One, 2) }

Cases == ValidCases \cup InvalidCases

\* values rng.normal(0, .001) may return
NormalVals == {Zero, One}

\* The conditions the contract of fit(X, y, eta, lambda, seed,
\* max_iterations) puts on its arguments.
ValidArgs(xx, yy, e, l, m) ==
    /\ Size(yy) = xx.shape[1]
    /\ RLess(Zero, e)
    /\ RLeq(Zero, l)
    /\ m > 0
    /\ \A k \in DOMAIN yy : yy[k] \in {0, 1}

\* ------------------------------------------------------------------------
\* State
\* ------------------------------------------------------------------------
VARIABLES
    X, y, eta, la, maxit,   \* the arguments of sparse_sgd
    ver,                    \* which version of the notebook runs
    pc,                     \* position in sparse_sgd / update
    nrow, p,                \* X.shape
    beta_dict, gap_count,   \* coefficient store, last-touch store
    v,                      \* loop variable of the initialisation loop
    it,                     \* iteration counter
    ii, A, xA, betaA, pen,  \* locals of update
    jjA,                    \* position of the two loops of update
    xAbetaA,                \* the predictor of the current iteration
    beta,                   \* the array sparse_sgd returns
    outcome,                \* "running", "returned" or the exception raised
    tape, rngpos,           \* outputs of RandomState(seed), number consumed
    run,                    \* 1: first call, 2: second call with the same arguments
    eager, eagerAt,         \* eager reference; its value at each last touch
    touched,                \* coordinates that were in a sampled active set
    sampled,                \* the row sampled at each iteration so far
    gapAtEntry,             \* gap_count when update was entered
    storeHist,              \* the stores after initialisation and each iteration
    calls,                  \* the values of it update was called with
    first                   \* what the first call did

argVars == <<X, y, eta, la, maxit, ver>>
updVars == <<ii, A, xA, betaA, pen, jjA, xAbetaA>>
rngVars == <<tape, rngpos>>
refVars == <<eager, eagerAt, touched, sampled, gapAtEntry>>
vars == <<X, y, eta, la, maxit, ver, pc, nrow, p, beta_dict, gap_count, v, it,
          ii, A, xA, betaA, pen, jjA, xAbetaA, beta, outcome, tape, rngpos,
          run, eager, eagerAt, touched, sampled, gapAtEntry, storeHist, calls,
          first>>

Empty == Arr(<<>>)

NoFirst == [storeHist |-> <<>>, calls |-> <<>>, outcome |-> "none", beta |-> Empty]

\* the state of a call of sparse_sgd before its first statement
Entry ==
    /\ pc = "start"
    /\ nrow = 0 /\ p = 0
    /\ beta_dict = Empty /\ gap_count = Empty
    /\ v = 0 /\ it = 0
    /\ ii = 0 /\ A = Empty /\ xA = Empty /\ betaA = Empty /\ pen = Empty
    /\ jjA = 0 /\ xAbetaA = Zero
    /\ beta = Empty
    /\ outcome = "running"
    /\ rngpos = 0
    /\ eager = Empty /\ eagerAt = Empty /\ touched = {} /\ gapAtEntry = Empty
    /\ sampled = <<>>
    /\ storeHist = <<>>
    /\ calls = <<>>

Init ==
    /\ \E c \in Cases :
          /\ X = c.X /\ y = c.y /\ eta = c.eta /\ la = c.la /\ maxit = c.maxit
    /\ ver \in Versions
    /\ tape = <<>>
    /\ run = 1
    /\ first = NoFirst
    /\ Entry

\* a generator shared by all calls, which goes on where it stopped
GlobalState(pos) == pos

\* line 75: rng = np.random.RandomState(seed) is a new generator at the
\* start of the stream of the seed, whatever was drawn before the call.
RandomState(pos) == 0

\* RandomState(seed) is a fixed stream of outputs: an output already on the
\* tape is replayed, a new one is any value of the distribution.
Outputs(choices) == IF rngpos < Len(tape) THEN {tape[rngpos + 1]} ELSE choices

\* a draw that advances the generator by two outputs
ConsumeTwo(d) ==
    /\ tape' = (IF rngpos < Len(tape) THEN tape ELSE Append(tape, d))
    /\ rngpos' = rngpos + 2

Consume(d) ==
    /\ tape' = (IF rngpos < Len(tape) THEN tape ELSE Append(tape, d))
    /\ rngpos' = rngpos + 1

\* ------------------------------------------------------------------------
\* sparse_sgd (lines 73-92)
\* ------------------------------------------------------------------------
\* lines 74-78: nrow, p = X.shape; rng = RandomState(seed); two empty dicts
Begin ==
    /\ pc = "start"
    /\ nrow' = X.shape[1]
    /\ p' = X.shape[2]
    /\ beta_dict' = Empty
    /\ gap_count' = Empty
    /\ v' = 0
    /\ rngpos' = RandomState(rngpos)
    /\ pc' = "init"
    /\ UNCHANGED <<argVars, it, updVars, beta, outcome, tape, run, refVars,
                   storeHist, calls, first>>

\* lines 79-81, one pass of the loop: beta_dict[v] = rng.normal(0, .001);
\* gap_count[v] = 0
InitStore ==
    /\ pc = "init"
    /\ v < p
    /\ \E d \in Outputs(NormalVals) :
          /\ Consume(d)
          /\ beta_dict' = beta_dict @@ (v :> d)
    /\ gap_count' = gap_count @@ (v :> 0)
    /\ v' = v + 1
    /\ UNCHANGED <<argVars, pc, nrow, p, it, updVars, beta, outcome, run,
                   refVars, storeHist, calls, first>>

\* line 83: it = 0
InitDone ==
    /\ pc = "init"
    /\ v = p
    /\ it' = 0
    /\ pc' = "while"
    /\ eager' = beta_dict
    /\ eagerAt' = beta_dict
    /\ storeHist' = <<[beta_dict |-> beta_dict, gap_count |-> gap_count]>>
    /\ UNCHANGED <<argVars, nrow, p, beta_dict, gap_count, v, updVars, beta,
                   outcome, rngVars, run, touched, sampled, gapAtEntry, calls,
                   first>>

\* a loop test that lets one more iteration in
LoopTestLeq(t, m) == t <= m

\* line 84: while it < maxit
LoopTest(t, m) == t < m

\* lines 84-86: the test of the while loop, it += 1 and the call of update
WhileStep ==
    /\ pc = "while"
    /\ LoopTest(it, maxit)
    /\ it' = it + 1
    /\ calls' = Append(calls, it + 1)
    /\ pc' = "update"
    /\ UNCHANGED <<argVars, nrow, p, beta_dict, gap_count, v, updVars, beta,
                   outcome, rngVars, run, refVars, storeHist, first>>

\* a read-out that first decays every coordinate up to the last iteration
ReadOutCaughtUp(bd, n) ==
    [k \in 0 .. n - 1 |->
        IF k \in DOMAIN bd
        THEN RMul(bd[k], Penalty(ver, eta, la, it + 1, gap_count[k]))
        ELSE Zero]

\* lines 88-90: beta = np.zeros(p); for k in beta_dict: beta[k] = beta_dict[k]
ReadOut(bd, n) ==
    [k \in 0 .. n - 1 |-> IF k \in DOMAIN bd THEN bd[k] ELSE Zero]

\* lines 88-90: the loop is left, the store is read out
Finalize ==
    /\ pc = "while"
    /\ ~LoopTest(it, maxit)
    /\ beta' = ReadOut(beta_dict, p)
    /\ pc' = "final"
    /\ UNCHANGED <<argVars, nrow, p, beta_dict, gap_count, v, it, updVars,
                   outcome, rngVars, run, refVars, storeHist, calls, first>>

\* line 92: return beta
Return ==
    /\ pc = "final"
    /\ pc' = "done"
    /\ outcome' = "returned"
    /\ UNCHANGED <<argVars, nrow, p, beta_dict, gap_count, v, it, updVars,
                   beta, rngVars, run, refVars, storeHist, calls, first>>

\* ------------------------------------------------------------------------
\* update (lines 51-70)
\* ------------------------------------------------------------------------
\* a sampler that draws each row once before any row comes again
randintFresh(lo, hi) ==
    (lo .. hi - 1) \ {sampled[t] : t \in 1 .. Len(sampled)}

\* line 52: the values rng.randint(lo, hi) may return, lo <= value < hi
randint(lo, hi) == lo .. hi - 1

\* lines 52-57: ii = rng.randint(0, nrow); x = X.getrow(ii); A = x.indices;
\* xA = x.data; betaA and pen are zero arrays of the shape of A
Sample ==
    /\ pc = "update"
    /\ \E d \in Outputs(randint(0, nrow)) :
          /\ Consume(d)
          /\ ii' = d
          /\ A' = X.rows[d].indices
          /\ xA' = X.rows[d].data
          /\ betaA' = zeros(Size(X.rows[d].indices))
          /\ pen' = zeros(Size(X.rows[d].indices))
          /\ touched' = touched \cup ActiveSet(X.rows[d].indices)
          /\ sampled' = Append(sampled, d)
          /\ IF d \in DOMAIN y
             THEN /\ eager' = EagerStep(eager, X.rows[d].indices, X.rows[d].data,
                                        R(y[d]), eta, la)
                  /\ eagerAt' = [j \in DOMAIN eagerAt |->
                                    IF j \in ActiveSet(X.rows[d].indices)
                                    THEN eager'[j] ELSE eagerAt[j]]
             ELSE UNCHANGED <<eager, eagerAt>>
    /\ jjA' = 0
    /\ gapAtEntry' = gap_count
    /\ pc' = "catchup"
    /\ UNCHANGED <<argVars, nrow, p, beta_dict, gap_count, v, it, xAbetaA,
                   beta, outcome, run, storeHist, calls, first>>

\* lines 59-62, one pass of the loop over enumerate(A)
CatchUp ==
    /\ pc = "catchup"
    /\ jjA < Size(A)
    /\ LET jj == A[jjA]
       IN  /\ betaA' = [betaA EXCEPT ![jjA] = beta_dict[jj]]
           /\ pen' = [pen EXCEPT ![jjA] = Penalty(ver, eta, la, it, gap_count[jj])]
           /\ gap_count' = Touch(gap_count, jj, it)
    /\ jjA' = jjA + 1
    /\ UNCHANGED <<argVars, pc, nrow, p, beta_dict, v, it, ii, A, xA, xAbetaA,
                   beta, outcome, rngVars, run, refVars, storeHist, calls, first>>

\* a product computed in place on the data of the sampled row of X
DecayIntoRow ==
    /\ pc = "catchup"
    /\ jjA = Size(A)
    /\ betaA' = ArrMul(betaA, pen)
    /\ X' = [X EXCEPT !.rows[ii].data = ArrMul(xA, pen)]
    /\ pc' = "grad"
    /\ UNCHANGED <<y, eta, la, maxit, ver, nrow, p, beta_dict, gap_count, v,
                   it, ii, A, xA, pen, jjA, xAbetaA, beta, outcome, rngVars,
                   run, refVars, storeHist, calls, first>>

\* line 64: betaA = betaA * pen
Decay ==
    /\ pc = "catchup"
    /\ jjA = Size(A)
    /\ betaA' = ArrMul(betaA, pen)
    /\ pc' = "grad"
    /\ UNCHANGED <<argVars, nrow, p, beta_dict, gap_count, v, it, ii, A, xA,
                   pen, jjA, xAbetaA, beta, outcome, rngVars, run, refVars,
                   storeHist, calls, first>>

\* lines 65-67: the predictor, the gradient with the penalty, the step
Grad ==
    /\ pc = "grad"
    /\ ii \in DOMAIN y
    /\ xAbetaA' = dot(xA, betaA)
    /\ betaA' = GradStep(betaA, eta,
                         GradPenalty(R(y[ii]), xA, betaA, la, dot(xA, betaA)))
    /\ jjA' = 0
    /\ pc' = "write"
    /\ UNCHANGED <<argVars, nrow, p, beta_dict, gap_count, v, it, ii, A, xA,
                   pen, beta, outcome, rngVars, run, refVars, storeHist, calls,
                   first>>

\* line 66 when ii is not an index of y: y[ii] raises IndexError
GradRaise ==
    /\ pc = "grad"
    /\ ii \notin DOMAIN y
    /\ xAbetaA' = dot(xA, betaA)
    /\ pc' = "raised"
    /\ outcome' = "IndexError"
    /\ UNCHANGED <<argVars, nrow, p, beta_dict, gap_count, v, it, ii, A, xA,
                   betaA, pen, jjA, beta, rngVars, run, refVars, storeHist,
                   calls, first>>

\* lines 69-70, one pass of the loop over zip(A, betaA)
WriteBack ==
    /\ pc = "write"
    /\ jjA < Size(A)
    /\ beta_dict' = Store(beta_dict, A[jjA], betaA[jjA])
    /\ jjA' = jjA + 1
    /\ UNCHANGED <<argVars, pc, nrow, p, gap_count, v, it, ii, A, xA, betaA,
                   pen, xAbetaA, beta, outcome, rngVars, run, refVars,
                   storeHist, calls, first>>

\* a return that does not count an iteration whose row was empty
UpdateReturnRedo ==
    /\ pc = "write"
    /\ jjA = Size(A)
    /\ pc' = "while"
    /\ it' = (IF Size(A) = 0 THEN it - 1 ELSE it)
    /\ storeHist' = (IF Size(A) = 0 THEN storeHist
                     ELSE Append(storeHist, [beta_dict |-> beta_dict,
                                             gap_count |-> gap_count]))
    /\ UNCHANGED <<argVars, nrow, p, beta_dict, gap_count, v, updVars,
                   beta, outcome, rngVars, run, refVars, calls, first>>

\* update returns to the while loop
UpdateReturn ==
    /\ pc = "write"
    /\ jjA = Size(A)
    /\ pc' = "while"
    /\ storeHist' = Append(storeHist,
                           [beta_dict |-> beta_dict, gap_count |-> gap_count])
    /\ UNCHANGED <<argVars, nrow, p, beta_dict, gap_count, v, it, updVars,
                   beta, outcome, rngVars, run, refVars, calls, first>>

\* ------------------------------------------------------------------------
\* A second, independent call sparse_sgd(X, y, eta, la, seed, maxit) with
\* the arguments of the first: RandomState(seed) yields the same stream.
\* ------------------------------------------------------------------------
Rerun ==
    /\ pc \in {"done", "raised"}
    /\ run = 1
    /\ run' = 2
    /\ first' = [storeHist |-> storeHist, calls |-> calls,
                 outcome |-> outcome, beta |-> beta]
    /\ pc' = "start"
    /\ nrow' = 0 /\ p' = 0
    /\ beta_dict' = Empty /\ gap_count' = Empty
    /\ v' = 0 /\ it' = 0
    /\ ii' = 0 /\ A' = Empty /\ xA' = Empty /\ betaA' = Empty /\ pen' = Empty
    /\ jjA' = 0 /\ xAbetaA' = Zero
    /\ beta' = Empty
    /\ outcome' = "running"
    /\ eager' = Empty /\ eagerAt' = Empty /\ touched' = {} /\ gapAtEntry' = Empty
    /\ sampled' = <<>>
    /\ storeHist' = <<>>
    /\ calls' = <<>>
    /\ UNCHANGED <<argVars, rngVars>>

Next ==
    \/ Begin
    \/ InitStore
    \/ InitDone
    \/ WhileStep
    \/ Finalize
    \/ Return
    \/ Sample
    \/ CatchUp
    \/ Decay
    \/ Grad
    \/ GradRaise
    \/ WriteBack
    \/ UpdateReturn
    \/ Rerun

Spec == Init /\ [][Next]_vars

\* The interpreter runs the sequential program to its end.
FairSpec == Spec /\ WF_vars(Next)

TypeOK ==
    /\ pc \in {"start", "init", "while", "update", "catchup", "grad", "write",
               "final", "done", "raised"}
    /\ outcome \in {"running", "returned", "IndexError"}
    /\ run \in {1, 2}
    /\ DOMAIN beta_dict = DOMAIN gap_count

\* ------------------------------------------------------------------------
\* Properties
\* ------------------------------------------------------------------------
ValidInput == ValidArgs(X, y, eta, la, maxit)

Features == 0 .. p - 1

\* the values of the active coordinates after the catch-up the derivation
\* asks for: beta_j * (1 - eta*lambda) ^ (it - last_touch_j - 1), with the
\* last touch read when update was entered
CaughtUp ==
    [k \in DOMAIN A |->
        RMul(beta_dict[A[k]],
             RPow(RSub(One, RMul(eta, la)), it - gapAtEntry[A[k]] - 1))]

\* C1: lazy equals eager.  The vector sparse_sgd returns equals, coordinate
\* by coordinate, the value the eager reference held for that coordinate at
\* the end of the coordinate's last-touch iteration (its initial value if
\* the coordinate was never touched).
C1_LazyEqualsEager ==
    (ValidInput /\ pc = "done") => \A j \in Features : beta[j] = eagerAt[j]

\* C2: in update at iteration it, the coefficient of every index of the
\* active set is first multiplied by (1 - eta*lambda)^gap with
\* gap = it - last_touch - 1 (last_touch as it was before it is overwritten)
\* and only then used in the predictor and in the gradient step.
C2_CatchUpBeforeUse ==
    /\ (ValidInput /\ pc = "grad") => betaA = CaughtUp
    /\ (ValidInput /\ pc = "write" /\ jjA = 0) =>
          /\ xAbetaA = dot(xA, CaughtUp)
          /\ betaA = GradStep(CaughtUp, eta,
                              GradPenalty(R(y[ii]), xA, CaughtUp, la,
                                          dot(xA, CaughtUp)))

\* C3: in every state of a run, 0 <= last_touch[j] <= it for every feature
\* j of the last-touch store.
C3_LastTouchBounded ==
    \A j \in DOMAIN gap_count : 0 <= gap_count[j] /\ gap_count[j] <= it

\* C3 witness: inside update, at a later iteration, one coordinate was just
\* stamped with it and another carries an older nonzero stamp.
C3_Witness ==
    /\ pc = "catchup"
    /\ it >= 2
    /\ \E j, k \in DOMAIN gap_count :
          gap_count[j] = it /\ 0 < gap_count[k] /\ gap_count[k] < it

\* C4: a coordinate that was in the active set of no sampled row has, in
\* every state and in the returned vector, the value drawn for it at
\* initialisation, and its last touch stays 0.
C4_UntouchedKeepInit ==
    /\ \A j \in DOMAIN beta_dict \ touched :
          beta_dict[j] = tape[j + 1] /\ gap_count[j] = 0
    /\ pc \in {"final", "done"} =>
          \A j \in Features \ touched : beta[j] = tape[j + 1]

\* C4 witness: a run of at least two iterations has returned, some
\* coordinates were touched and a nonzero one was not.
C4_Witness ==
    /\ pc = "done"
    /\ it >= 2
    /\ touched # {}
    /\ \E j \in Features \ touched : beta[j] # Zero

\* C5: sparse_sgd fails with InvalidArgument, instead of returning a
\* vector, when len(y) differs from the number of rows, eta <= 0,
\* lambda < 0, max_iterations <= 0 or a label is outside {0, 1}.
C5_InvalidArgumentRaised ==
    (~ValidInput /\ pc \in {"done", "raised"}) => outcome = "InvalidArgument"

\* C6: on invalid input the failure comes before any random draw is
\* consumed and before any coefficient or last-touch entry is written; no
\* iteration of the loop runs.
C6_NoWorkOnInvalidInput ==
    (~ValidInput /\ run = 1) =>
        /\ rngpos = 0
        /\ beta_dict = Empty
        /\ gap_count = Empty
        /\ calls = <<>>

IsPrefix(s, t) == Len(s) <= Len(t) /\ \A k \in 1 .. Len(s) : s[k] = t[k]

\* C7: determinism.  A second run with the same arguments and seed goes
\* through the same stores after initialisation and after every iteration,
\* calls update with the same counters and ends with the same outcome and
\* the same vector.
C7_Deterministic ==
    run = 2 =>
        /\ IsPrefix(storeHist, first.storeHist)
        /\ IsPrefix(calls, first.calls)
        /\ pc \in {"done", "raised"} =>
              /\ outcome = first.outcome
              /\ beta = first.beta
              /\ storeHist = first.storeHist
              /\ calls = first.calls

\* C7 witness: the second run has returned after at least two iterations
\* that touched a coordinate.
C7_Witness ==
    /\ run = 2
    /\ pc = "done"
    /\ Len(storeHist) >= 3
    /\ touched # {}
    /\ \E j \in Features : beta[j] # Zero

UpTo(n) == [k \in 1 .. n |-> k]

\* C8: for valid inputs sparse_sgd terminates, and update is called exactly
\* max_iterations times, with the counter 1, 2, ..., max_iterations in
\* that order.
C8_TerminatesInOrder ==
    /\ [](calls = UpTo(Len(calls)) /\ Len(calls) = it)
    /\ []((ValidInput /\ pc = "done") => calls = UpTo(maxit))
    /\ (ValidInput /\ pc = "start") ~> (pc = "done" /\ calls = UpTo(maxit))

\* C8 witness: a valid run of at least two iterations has returned.
C8_Witness ==
    /\ ValidInput
    /\ pc = "done"
    /\ maxit >= 2
    /\ Len(calls) = maxit

\* C9: finalisation applies no catch-up decay.  The returned vector has
\* length p and entry j is the store's value for j as it was at the end of
\* iteration last_touch[j] (the initial value when last_touch[j] = 0).
C9_ReadOutAsOfLastTouch ==
    pc \in {"final", "done"} =>
        /\ DOMAIN beta = Features
        /\ \A j \in Features :
              beta[j] = storeHist[gap_count[j] + 1].beta_dict[j]

\* C9 witness: a returned run with a nonzero penalty in which a nonzero
\* coordinate was last touched before the last iteration.
C9_Witness ==
    /\ pc = "done"
    /\ la # Zero /\ eta # Zero
    /\ \E j \in Features :
          0 < gap_count[j] /\ gap_count[j] < it /\ beta[j] # Zero

\* the store before the current iteration
PrevStore == storeHist[it].beta_dict

\* C10: zero-penalty reduction.  With lambda = 0 every catch-up multiplier
\* is 1 whatever the gap, each iteration changes beta[j] for j in A by
\* exactly eta*(y_i - sigma(psi))*x_j with psi taken from the values before
\* the iteration, leaves the other coordinates alone, and the store equals
\* the eager reference, which has no decay.
C10_ZeroPenalty ==
    la = Zero =>
        /\ pc = "catchup" => \A k \in 0 .. jjA - 1 : pen[k] = One
        /\ pc \in {"grad", "write"} => \A k \in DOMAIN pen : pen[k] = One
        /\ (pc = "while" /\ it >= 1) =>
              LET bs == [k \in DOMAIN A |-> PrevStore[A[k]]]
                  psi == dot(xA, bs)
              IN  /\ \A j \in Features :
                        beta_dict[j] =
                            IF j \in ActiveSet(A)
                            THEN RAdd(PrevStore[j],
                                      RMul(eta, RMul(RSub(R(y[ii]), expit(psi)),
                                                      xA[PosOf(A, j)])))
                            ELSE PrevStore[j]
                  /\ beta_dict = eager

\* C10 witness: with lambda = 0, a nonzero coefficient is caught up over a
\* gap of at least one iteration.
C10_Witness ==
    /\ la = Zero
    /\ pc = "grad"
    /\ \E k \in DOMAIN A :
          Gap(it, gapAtEntry[A[k]]) >= 1 /\ betaA[k] # Zero

\* the active set of the row sampled at iteration t
ActiveAt(t) == ActiveSet(X.rows[sampled[t]].indices)

\* C11: no-op catch-up.  A coordinate that is in the active set at
\* iteration it - 1 and again at iteration it has gap 0 and multiplier
\* exactly 1 at iteration it, so the value that enters the gradient step is
\* the stored one.
C11_NoOpCatchUp ==
    (pc \in {"catchup", "grad", "write"} /\ it >= 2) =>
        \A k \in DOMAIN A :
            (A[k] \in ActiveAt(it - 1) /\ (pc = "catchup" => k < jjA)) =>
                /\ it - gapAtEntry[A[k]] - 1 = 0
                /\ pen[k] = One
                /\ pc = "grad" => betaA[k] = beta_dict[A[k]]

\* C11 witness: with a nonzero penalty, a nonzero coefficient that was
\* active at the previous iteration has gone through the catch-up.
C11_Witness ==
    /\ pc = "grad"
    /\ it >= 2
    /\ la # Zero /\ eta # Zero
    /\ \E k \in DOMAIN A : A[k] \in ActiveAt(it - 1) /\ betaA[k] # Zero

\* one gradient + penalty step on the coordinates of idx, none elsewhere
StepOn(b, idx, xs, yi) ==
    LET bs == [k \in DOMAIN idx |-> b[idx[k]]]
        psi == dot(xs, bs)
    IN  [j \in DOMAIN b |->
            IF j \in ActiveSet(idx)
            THEN RAdd(b[j],
                      RMul(eta, RSub(RMul(RSub(yi, expit(psi)),
                                          xs[PosOf(idx, j)]),
                                     RMul(la, b[j]))))
            ELSE b[j]]

\* C12: boundary.  With max_iterations = 1 the run samples exactly one row,
\* every active coordinate has gap 0 and multiplier 1, exactly one gradient
\* step is applied to the active coordinates, and afterwards last_touch is 1
\* on the active set and 0 elsewhere.
C12_SingleIteration ==
    (ValidInput /\ maxit = 1) =>
        /\ pc \in {"catchup", "grad", "write"} =>
              \A k \in DOMAIN A :
                  (pc = "catchup" => k < jjA) =>
                      it - gapAtEntry[A[k]] - 1 = 0 /\ pen[k] = One
        /\ pc \in {"final", "done"} =>
              /\ Len(sampled) = 1
              /\ rngpos = p + 1
              /\ calls = <<1>>
              /\ beta_dict = StepOn(storeHist[1].beta_dict,
                                    X.rows[sampled[1]].indices,
                                    X.rows[sampled[1]].data, R(y[sampled[1]]))
              /\ \A j \in Features :
                    gap_count[j] = IF j \in ActiveAt(1) THEN 1 ELSE 0

\* C12 witness: a run with max_iterations = 1 has returned after sampling a
\* row with a nonempty active set and changing a coefficient.
C12_Witness ==
    /\ ValidInput /\ maxit = 1
    /\ pc = "done"
    /\ Size(A) > 0
    /\ beta_dict # storeHist[1].beta_dict

Scenario ==
    /\ X = XS /\ y = Arr(<<1>>)
    /\ eta = Tenth /\ la = Tenth
    /\ maxit = 1
    /\ Len(storeHist) >= 1
    /\ storeHist[1].beta_dict = Arr(<<Zero, Zero, Zero>>)

\* C13: concrete scenario.  p = 3, a single row with active set {0, 2} and
\* values [1.0, 0.5], label 1, eta = 0.1, lambda = 0.1, initial beta
\* [0, 0, 0]: the predictor is 0 and one iteration yields
\* beta = [0.05, 0.0, 0.025].
C13_ConcreteScenario ==
    Scenario =>
        /\ pc = "write" => xAbetaA = Zero /\ expit(xAbetaA) = Half
        /\ pc = "done" => beta = Arr(<<<<1, 20>>, Zero, <<1, 40>>>>)

\* C13 witness: the scenario has run to its return.
C13_Witness == Scenario /\ pc = "done" /\ A = Arr(<<0, 2>>)

\* C14: whenever a coordinate of the active set is processed, its gap
\* it - last_touch - 1 is >= 0, that is last_touch < it when it is read.
C14_GapNonNegative ==
    pc \in {"catchup", "grad", "write"} =>
        \A k \in DOMAIN A :
            /\ it - gapAtEntry[A[k]] - 1 >= 0
            /\ (pc = "catchup" /\ k >= jjA) => gap_count[A[k]] < it

\* C14 witness: a coordinate about to be processed was touched at the
\* previous iteration, so its gap is exactly 0.
C14_Witness ==
    /\ pc = "catchup"
    /\ it >= 2
    /\ jjA < Size(A)
    /\ it - gap_count[A[jjA]] - 1 = 0

\* C15: pending-decay invariant.  After every iteration K and for every
\* coordinate j the stored value is short of the eager value by exactly
\* K - last_touch[j] decay steps:
\* eager_K[j] = stored_K[j] * (1 - eta*lambda)^(K - last_touch[j]).
C15_PendingDecay ==
    (ValidInput /\ pc = "while") =>
        \A j \in Features :
            eager[j] = RMul(beta_dict[j],
                            RPow(RSub(One, RMul(eta, la)), it - gap_count[j]))

\* C16: sparse_sgd has no side effect on its arguments: no step of a run
\* changes the matrix X, the label vector y or the hyperparameters.
C16_InputsUnchanged ==
    [][X' = X /\ y' = y /\ eta' = eta /\ la' = la /\ maxit' = maxit]_vars

\* C16 witness: a run has returned after its iterations changed the
\* coefficient store and the last-touch store.
C16_Witness ==
    /\ pc = "done"
    /\ it >= 2
    /\ beta_dict # storeHist[1].beta_dict
    /\ gap_count # storeHist[1].gap_count

\* the values the code's own catch-up gives the active coordinates
Decayed == [k \in DOMAIN A |-> RMul(PrevStore[A[k]], pen[k])]

\* the simultaneous step from the decayed values with one predictor
Stepped ==
    LET psi == dot(xA, Decayed)
    IN  [k \in DOMAIN A |->
            RAdd(Decayed[k],
                 RMul(eta, RSub(RMul(RSub(R(y[ii]), expit(psi)), xA[k]),
                                RMul(la, Decayed[k]))))]

\* C17: within one iteration the gradient step is simultaneous.  psi is
\* computed once from the catch-up-decayed values of all active
\* coordinates, and every active j gets
\* beta[j] + eta*((y_i - sigma(psi))*x_j - lambda*beta[j]) from that psi and
\* its own decayed beta[j].
C17_SimultaneousStep ==
    /\ pc = "write" =>
          /\ xAbetaA = dot(xA, Decayed)
          /\ betaA = Stepped
    /\ (pc = "while" /\ it >= 1) =>
          \A k \in DOMAIN A : beta_dict[A[k]] = Stepped[k]

\* C17 witness: an iteration with two active coordinates, a nonzero
\* predictor and a nonzero penalty has written its values back.
C17_Witness ==
    /\ pc = "while"
    /\ it >= 2
    /\ Size(A) = 2
    /\ xAbetaA # Zero
    /\ la # Zero
    /\ beta_dict[A[0]] # PrevStore[A[0]]
    /\ beta_dict[A[1]] # PrevStore[A[1]]

\* C18: a call of update leaves the coefficient and the last-touch entry
\* of every index outside the sampled active set unchanged and never adds
\* or removes a key: both stores have the keys 0..p-1 from the end of the
\* initialisation to the end of the run.
C18_FrameOfUpdate ==
    /\ pc \notin {"start", "init"} =>
          DOMAIN beta_dict = Features /\ DOMAIN gap_count = Features
    /\ (pc \in {"catchup", "grad", "write"} \/ (pc = "while" /\ it >= 1)) =>
          \A j \in Features \ ActiveSet(A) :
              /\ beta_dict[j] = storeHist[it].beta_dict[j]
              /\ gap_count[j] = storeHist[it].gap_count[j]

\* C18 witness: an iteration has ended that changed an active coordinate
\* while a coordinate touched earlier was outside its active set.
C18_Witness ==
    /\ pc = "while"
    /\ it >= 2
    /\ \E k \in DOMAIN A : beta_dict[A[k]] # PrevStore[A[k]]
    /\ \E j \in Features \ ActiveSet(A) : gap_count[j] > 0

\* the most recent iteration whose sampled row had j in its active set
LastActive(j) ==
    LET S == {t \in 1 .. Len(sampled) : j \in ActiveAt(t)}
    IN  IF S = {} THEN 0 ELSE CHOOSE t \in S : \A u \in S : u <= t

\* C19: after every iteration last_touch[j] is the number of the most
\* recent iteration whose sampled row had j in its active set, 0 if there
\* was none; it equals it for every j of the active set right after
\* iteration it, and it never decreases.
C19_LastTouchIsLastActive ==
    /\ [](pc \in {"while", "final", "done"} =>
            \A j \in Features : gap_count[j] = LastActive(j))
    /\ []((pc = "while" /\ it >= 1) =>
            \A k \in DOMAIN A : gap_count[A[k]] = it)
    /\ [][\A j \in DOMAIN gap_count \cap DOMAIN gap_count' :
            gap_count'[j] >= gap_count[j]]_vars

\* C19 witness: after the third or a later iteration one coordinate was
\* last active at an earlier iteration and has been active twice.
C19_Witness ==
    /\ pc = "while"
    /\ it >= 3
    /\ \E j \in Features :
          /\ 1 < gap_count[j] /\ gap_count[j] < it
          /\ \E t \in 1 .. gap_count[j] - 1 : j \in ActiveAt(t)

\* C20: the generator is consumed in a fixed order: p draws for the
\* initial coefficients of the indices 0..p-1 in index order, all before
\* the first iteration, then exactly one draw per iteration, the row index;
\* a run of max_iterations steps consumes p + max_iterations draws.
C20_DrawOrder ==
    /\ pc = "init" =>
          /\ rngpos = v
          /\ calls = <<>>
          /\ \A j \in 0 .. v - 1 : beta_dict[j] = tape[j + 1]
    /\ pc = "update" => rngpos = p + it - 1
    /\ pc \in {"catchup", "grad", "write"} =>
          rngpos = p + it /\ tape[rngpos] = ii
    /\ pc \in {"while", "final", "done"} => rngpos = p + it
    /\ (ValidInput /\ pc \in {"final", "done"}) => rngpos = p + maxit

\* C20 witness: a valid run of several iterations has returned with the
\* last draw being a row index.
C20_Witness ==
    /\ ValidInput
    /\ pc = "done"
    /\ maxit >= 2
    /\ rngpos = Len(tape)
    /\ tape[rngpos] = ii

\* C21: every iteration samples its row index from the full range
\* [0, nrow), with replacement: the index is a row of X and, on valid
\* input, a position of y; at every iteration of a run on a new seed every
\* row can be sampled, the one sampled just before included.
C21_RowSampling ==
    /\ pc \in {"catchup", "grad", "write"} =>
          /\ ii \in 0 .. nrow - 1
          /\ ii \in DOMAIN X.rows
          /\ ValidInput => ii \in DOMAIN y
          /\ sampled[it] = ii
    /\ (pc = "update" /\ rngpos = Len(tape)) =>
          \A r \in 0 .. nrow - 1 : ENABLED (Sample /\ ii' = r)

\* C21 witness: the last row of the matrix has just been sampled at two
\* consecutive iterations.
C21_Witness ==
    /\ pc = "catchup"
    /\ it >= 2
    /\ nrow >= 2
    /\ ii = nrow - 1
    /\ sampled[it - 1] = ii

\* the number of iterations before the current one, counted back from it,
\* in which coordinate j was not in the sampled active set
InactiveRun(j) ==
    Cardinality({t \in 1 .. it - 1 : \A u \in t .. it - 1 : j \notin ActiveAt(u)})

\* C22: an iteration whose sampled row has no nonzero entry changes
\* neither the coefficient store nor the last-touch store, but it consumes
\* one draw and counts as an iteration: the counter advances and the gap of
\* a later catch-up includes it.
C22_EmptyRow ==
    /\ (pc \in {"catchup", "grad", "write"} /\ Size(A) = 0) =>
          /\ beta_dict = storeHist[it].beta_dict
          /\ gap_count = storeHist[it].gap_count
          /\ rngpos = p + it
    /\ (pc = "while" /\ it >= 1 /\ Size(A) = 0) =>
          /\ beta_dict = storeHist[it].beta_dict
          /\ gap_count = storeHist[it].gap_count
          /\ rngpos = p + it
          /\ Len(calls) = it /\ calls[it] = it
          /\ Len(sampled) = it
          /\ Len(storeHist) = it + 1
    /\ pc = "grad" =>
          \A k \in DOMAIN A :
              /\ it - gapAtEntry[A[k]] - 1 = InactiveRun(A[k])
              /\ pen[k] = RPow(DecayBase(ver, eta, la), InactiveRun(A[k]))

\* C22 witness: a nonzero coefficient is caught up over a gap that
\* contains an iteration whose row was empty, after an earlier touch.
C22_Witness ==
    /\ pc = "grad"
    /\ la # Zero
    /\ \E k \in DOMAIN A :
          /\ gapAtEntry[A[k]] > 0
          /\ betaA[k] # Zero
          /\ \E t \in gapAtEntry[A[k]] + 1 .. it - 1 :
                Size(X.rows[sampled[t]].indices) = 0

\* update (lines 51-70) of version vr as one step: the stores after the
\* call at iteration t that samples row r, from the stores st
UpdateWhole(vr, st, r, t) ==
    LET idx == X.rows[r].indices
        xs == X.rows[r].data
        pens == [k \in DOMAIN idx |->
                    Penalty(vr, eta, la, t, st.gap_count[idx[k]])]
        bs == ArrMul([k \in DOMAIN idx |-> st.beta_dict[idx[k]]], pens)
        new == GradStep(bs, eta, GradPenalty(R(y[r]), xs, bs, la, dot(xs, bs)))
    IN  [beta_dict |-> [j \in DOMAIN st.beta_dict |->
                           IF j \in ActiveSet(idx) THEN new[PosOf(idx, j)]
                           ELSE st.beta_dict[j]],
         gap_count |-> [j \in DOMAIN st.gap_count |->
                           IF j \in ActiveSet(idx) THEN t
                           ELSE st.gap_count[j]]]

\* the stores version vr holds after k iterations when it starts from the
\* stores of this run and is fed the rows this run sampled
RECURSIVE Replay(_, _)
Replay(vr, k) ==
    IF k = 0 THEN storeHist[1]
    ELSE UpdateWhole(vr, Replay(vr, k - 1), sampled[k], k)

\* C23: the two versions of the optimizer are equivalent: started from the
\* same stores and fed the same sampled rows with the same eta and lambda,
\* they hold identical coefficient and last-touch stores after every
\* iteration.
C23_VersionsAgree ==
    (ValidInput /\ pc = "while") =>
        \A vr \in Versions :
            Replay(vr, it) = [beta_dict |-> beta_dict, gap_count |-> gap_count]

AbsR(a) == <<Abs(a[1]), a[2]>>

\* C24: when 0 <= eta*lambda <= 1 the catch-up multiplier of every active
\* coordinate lies in [0, 1] whatever the gap, so the catch-up never
\* increases the magnitude of a coefficient and never flips its sign, and a
\* larger gap never gives a larger multiplier.
C24_MultiplierInUnitInterval ==
    (/\ ValidInput
     /\ RLeq(Zero, RMul(eta, la)) /\ RLeq(RMul(eta, la), One)
     /\ pc = "grad") =>
        \A k \in DOMAIN A :
            /\ RLeq(Zero, pen[k]) /\ RLeq(pen[k], One)
            /\ RLeq(AbsR(betaA[k]), AbsR(beta_dict[A[k]]))
            /\ RLess(Zero, beta_dict[A[k]]) => RLeq(Zero, betaA[k])
            /\ RLess(beta_dict[A[k]], Zero) => RLeq(betaA[k], Zero)
            /\ \A m \in DOMAIN A :
                  gapAtEntry[A[m]] <= gapAtEntry[A[k]] => RLeq(pen[m], pen[k])
====
